---- MODULE Spec2Model ----
(***************************************************************************)
(* The in-memory HaCi client (FakeClient) of src/haci/haci.go.             *)
(*                                                                         *)
(* Strings that hold an address are modelled by their two textual parts:   *)
(* the dotted address before the slash, as the sequence of its decimal     *)
(* fields, and the part after the slash, <<n>> for "/n" and <<>> when the  *)
(* string has no slash.  "10.0.0.0/30" is [addr |-> <<10,0,0,0>>,          *)
(* suffix |-> <<30>>], "10.0.0.1" is [addr |-> <<10,0,0,1>>, suffix |->    *)
(* <<>>] and "" is [addr |-> <<>>, suffix |-> <<>>].  Go prints an IPv4    *)
(* address in exactly one way and refuses fields with leading zeros, so    *)
(* two such values are equal exactly when the Go strings are.  An IPv6     *)
(* address is written here as the sixteen bytes its text denotes; Go       *)
(* prints those in one way too.                                            *)
(* Descriptions are sequences of characters; tags are sequences of         *)
(* strings.                                                                *)
(***************************************************************************)
EXTENDS Integers, Sequences, FiniteSets, Bags, TLC

VARIABLES
    UseFirst, Supernets, Added,  \* the FakeClient
    last,                        \* what the last call returned
    issued, exhausted, live,     \* history of the calls since the last Reset
    procs,                       \* callers inside Assign at the same time
    web                          \* the last call to the WebClient

vars == <<UseFirst, Supernets, Added, last, issued, exhausted, live, procs, web>>
engine == <<Supernets, Added>>

----------------------------------------------------------------------------
(* Bounds and program constants *)

\* longest description the callers of Search ask for
MaxQueryLen == 1
\* "%s/32": the prefix length Assign prints after the new address
HostPrefix == 32

----------------------------------------------------------------------------
(* Strings *)

Text(a, s) == [addr |-> a, suffix |-> s]
EmptyString == Text(<<>>, <<>>)

\* Go maps: a map is a function whose domain is its key set
EmptyMap == <<>>
MapPut(m, k, v) == [x \in (DOMAIN m) \cup {k} |-> IF x = k THEN v ELSE m[x]]
MapDelete(m, k) == [x \in (DOMAIN m) \ {k} |-> m[x]]

\* Network{}: every field has its zero value
ZeroNetwork ==
    [CreateDate |-> "", CreateFrom |-> "", Description |-> <<>>,
     Network |-> EmptyString, Tags |-> <<>>]

----------------------------------------------------------------------------
(* Address arithmetic: net.ParseCIDR and go-cidr's Inc, Dec, AddressRange *)

Pow2(n) == IF n <= 0 THEN 1 ELSE 2 ^ n

\* number of mask bits that fall into field i of an address, for prefix n
MaskBitsIn(n, i) ==
    LET before == 8 * (i - 1)
    IN  IF n <= before THEN 0
        ELSE IF n >= before + 8 THEN 8
        ELSE n - before

\* IP.Mask(CIDRMask(n, bits)): clear the host bits
MaskIP(ip, n) ==
    [i \in 1..Len(ip) |-> ip[i] - (ip[i] % Pow2(8 - MaskBitsIn(n, i)))]

\* net.ParseCIDR(s): the address as written, and the network it lies in
ParseCIDR(s) ==
    IF \/ s.suffix = <<>>
       \/ Len(s.addr) \notin {4, 16}
       \/ \E i \in 1..Len(s.addr) : s.addr[i] \notin 0..255
       \/ s.suffix[1] \notin 0..(8 * Len(s.addr))
    THEN [err |-> TRUE, ip |-> <<>>, net |-> [IP |-> <<>>, Mask |-> 0]]
    ELSE [err |-> FALSE, ip |-> s.addr,
          net |-> [IP |-> MaskIP(s.addr, s.suffix[1]), Mask |-> s.suffix[1]]]

\* ccidr.Inc: add one, carrying from the last field, wrapping at the top
Inc(ip) ==
    LET carry(j) == \A k \in (j + 1)..Len(ip) : ip[k] = 255
    IN  [j \in 1..Len(ip) |->
            IF carry(j) THEN (ip[j] + 1) % 256 ELSE ip[j]]

\* ccidr.Dec: subtract one, borrowing from the last field, wrapping at zero
Dec(ip) ==
    LET borrow(j) == \A k \in (j + 1)..Len(ip) : ip[k] = 0
    IN  [j \in 1..Len(ip) |->
            IF borrow(j) THEN (ip[j] + 255) % 256 ELSE ip[j]]

\* ccidr.AddressRange(net): first and last address of the network
AddressRange(net) ==
    [first |-> net.IP,
     last  |-> [i \in 1..Len(net.IP) |->
                   net.IP[i] + Pow2(8 - MaskBitsIn(net.Mask, i)) - 1]]

\* fmt.Sprintf("%s/32", newip.String())
NetName(ip) == Text(ip, <<HostPrefix>>)

----------------------------------------------------------------------------
(* Errors: nil, and one value for each error text the client produces *)

ErrNil == "nil"
ErrParse == "invalid CIDR address"
ErrOutOfAddresses == "out of addresses"
ErrAlreadyExists == "already exists"
ErrNotFound == "not found"

----------------------------------------------------------------------------
(* What the callers pass *)

\* description and tags of the requests to Assign
Requests ==
    {[description |-> <<"a">>, tags |-> <<>>],
     [description |-> <<"a", "b">>, tags |-> <<"office">>]}

\* "10.0.0.0/30", the same network written "10.0.0.3/30", and "10.0.0.0/33"
SupernetArgs ==
    {Text(<<10, 0, 0, 0>>, <<30>>), Text(<<10, 0, 0, 3>>, <<30>>),
     Text(<<10, 0, 0, 0>>, <<33>>)}

\* "10.0.0.3/32" and "10.0.0.1" (no prefix length)
AddArgs == {Text(<<10, 0, 0, 3>>, <<32>>), Text(<<10, 0, 0, 1>>, <<>>)}

\* what Add registers its networks with
AddRequests == {[description |-> <<"b">>, tags |-> <<"lab">>]}

\* the networks Get and Delete are asked for
Identifiers == AddArgs \cup {Text(<<10, 0, 0, 1>>, <<32>>)}

\* the descriptions Search is asked for: the pieces of "ab"
Queries ==
    {SubSeq(<<"a", "b">>, p[1], p[2]) :
        p \in {q \in (1..2) \X (1..2) :
                  q[1] <= q[2] /\ q[2] - q[1] < MaxQueryLen}}

\* prefix lengths asked of Assign
PrefixLengths == {24, 32}

----------------------------------------------------------------------------
(* The operations' results, as the caller sees them *)

Outcome(op, network, description, tags, exact, net, nets, err) ==
    [op |-> op, network |-> network, description |-> description,
     tags |-> tags, exact |-> exact, net |-> net, nets |-> nets, err |-> err]

\* nobody is inside Assign, no call to the WebClient was made
NoProcs == <<>>
NoWeb == [op |-> "none"]

\* NewFakeClient / NewFakeClientUsesFirst, for callers that pass supernets
NewClient(supernets) ==
    /\ UseFirst \in BOOLEAN
    /\ Supernets = EmptyMap
    /\ Added = EmptyMap
    /\ last = Outcome("new", EmptyString, <<>>, <<>>, FALSE, ZeroNetwork,
                      EmptyBag, ErrNil)
    /\ issued = [s \in supernets |-> <<>>]
    /\ exhausted = {}
    /\ live = [s \in supernets |-> {}]

Init ==
    /\ NewClient(SupernetArgs)
    /\ procs = NoProcs
    /\ web = NoWeb

----------------------------------------------------------------------------
(* FakeClient.Get *)

\* Get as it once was: an unknown network gives an empty record and no error
GetResultsSilent(network) ==
    IF network \in DOMAIN Added
    THEN {[net |-> Added[network], err |-> ErrNil]}
    ELSE LET hits == {s \in DOMAIN Supernets :
                         network \in DOMAIN Supernets[s].Networks}
         IN  IF hits # {}
             THEN {[net |-> Supernets[s].Networks[network], err |-> ErrNil] :
                      s \in hits}
             ELSE {[net |-> ZeroNetwork, err |-> ErrNil]}

\* the records Get may return: map iteration order decides between pools
GetResults(network) ==
    IF network \in DOMAIN Added
    THEN {[net |-> Added[network], err |-> ErrNil]}
    ELSE LET hits == {s \in DOMAIN Supernets :
                         network \in DOMAIN Supernets[s].Networks}
         IN  IF hits # {}
             THEN {[net |-> Supernets[s].Networks[network], err |-> ErrNil] :
                      s \in hits}
             ELSE {[net |-> ZeroNetwork, err |-> ErrNotFound]}

Get(network) ==
    /\ \E r \in GetResults(network) :
          last' = Outcome("get", network, <<>>, <<>>, FALSE, r.net, EmptyBag,
                          r.err)
    /\ UNCHANGED <<UseFirst, Supernets, Added, issued, exhausted>>

----------------------------------------------------------------------------
(* FakeClient.List *)

\* the values a map holds under keys, appended one by one
ValuesBag(m, keys) ==
    [n \in {m[k] : k \in keys} |-> Cardinality({k \in keys : m[k] = n})]

\* a List that appends the added networks too
ListResultWithAdded(supernet) ==
    (IF supernet \in DOMAIN Supernets
     THEN ValuesBag(Supernets[supernet].Networks,
                    DOMAIN Supernets[supernet].Networks)
     ELSE EmptyBag)
    (+) ValuesBag(Added, DOMAIN Added)

ListResult(supernet) ==
    IF supernet \in DOMAIN Supernets
    THEN ValuesBag(Supernets[supernet].Networks,
                   DOMAIN Supernets[supernet].Networks)
    ELSE EmptyBag

List(supernet) ==
    /\ last' = Outcome("list", supernet, <<>>, <<>>, FALSE, ZeroNetwork,
                       ListResult(supernet), ErrNil)
    /\ UNCHANGED <<UseFirst, Supernets, Added, issued, exhausted>>

----------------------------------------------------------------------------
(* FakeClient.Assign *)

\* the cursor of a new pool: the address as written, or the one before it
InitialLast(ip) == IF UseFirst THEN Dec(ip) ELSE ip

\* a WithPool that makes a new map of pools for the pool it creates
WithPoolAlone(supernet, ip, net) ==
    IF supernet \in DOMAIN Supernets
    THEN Supernets
    ELSE MapPut(EmptyMap, supernet,
                [Network |-> net, Networks |-> EmptyMap,
                 Last |-> InitialLast(ip)])

\* a WithPool that gives the pool a new Networks map on every call
WithPoolFreshNetworks(supernet, ip, net) ==
    IF supernet \in DOMAIN Supernets
    THEN [Supernets EXCEPT ![supernet].Networks = EmptyMap]
    ELSE MapPut(Supernets, supernet,
                [Network |-> net, Networks |-> EmptyMap,
                 Last |-> InitialLast(ip)])

\* the pools after Assign has made sure that supernet has one
WithPool(supernet, ip, net) ==
    IF supernet \in DOMAIN Supernets
    THEN Supernets
    ELSE MapPut(Supernets, supernet,
                [Network |-> net, Networks |-> EmptyMap,
                 Last |-> InitialLast(ip)])

\* the check made against the first address of the range, not the last
OutOfAddressesFirst(net, Last) == AddressRange(net).first = Last

\* l.Equal(c.Supernets[supernet].Last)
OutOfAddresses(net, Last) == AddressRange(net).last = Last

\* Allocated without the assignment to Last
AllocatedKeepsCursor(pool, netname, network1, newip) ==
    [pool EXCEPT !.Networks = MapPut(@, netname, network1)]

\* the pool after network1 was stored under netname and the cursor advanced
Allocated(pool, netname, network1, newip) ==
    [pool EXCEPT !.Networks = MapPut(@, netname, network1), !.Last = newip]

Assign(supernet, description, cidr, tags) ==
    LET p == ParseCIDR(supernet)
    IN  IF p.err
        THEN /\ last' = Outcome("assign", supernet, description, tags, FALSE,
                                ZeroNetwork, EmptyBag, ErrParse)
             /\ UNCHANGED <<UseFirst, Supernets, Added, issued, exhausted>>
        ELSE LET pools == WithPool(supernet, p.ip, p.net)
                 pool == pools[supernet]
             IN  IF OutOfAddresses(p.net, pool.Last)
                 THEN /\ Supernets' = pools
                      /\ last' = Outcome("assign", supernet, description,
                                         tags, FALSE, ZeroNetwork, EmptyBag,
                                         ErrOutOfAddresses)
                      /\ exhausted' = exhausted \cup {supernet}
                      /\ UNCHANGED <<UseFirst, Added, issued>>
                 ELSE LET newip == Inc(pool.Last)
                          netname == NetName(newip)
                          network1 == [ZeroNetwork EXCEPT
                                          !.Network = netname,
                                          !.Description = description,
                                          !.Tags = tags]
                      IN  /\ Supernets' =
                                [pools EXCEPT ![supernet] =
                                    Allocated(pool, netname, network1, newip)]
                          /\ last' = Outcome("assign", supernet, description,
                                             tags, FALSE, network1, EmptyBag,
                                             ErrNil)
                          /\ issued' = [issued EXCEPT ![supernet] =
                                           Append(@, newip)]
                          /\ UNCHANGED <<UseFirst, Added, exhausted>>

----------------------------------------------------------------------------
(* FakeClient.Delete *)

\* a Delete that gives the address back when it was the last one handed out
WithoutNetworkReclaim(pools, network) ==
    [s \in DOMAIN pools |->
        [pools[s] EXCEPT
            !.Networks = MapDelete(@, network),
            !.Last = IF network \in DOMAIN pools[s].Networks
                        /\ network = NetName(pools[s].Last)
                     THEN Dec(@) ELSE @]]

\* a Delete that stops at the first pool holding the network
WithoutNetworkFirstPool(pools, network) ==
    LET hits == {s \in DOMAIN pools : network \in DOMAIN pools[s].Networks}
        first == CHOOSE s \in hits : TRUE
    IN  [s \in DOMAIN pools |->
            IF hits # {} /\ s = first
            THEN [pools[s] EXCEPT !.Networks = MapDelete(@, network)]
            ELSE pools[s]]

WithoutNetwork(pools, network) ==
    [s \in DOMAIN pools |->
        [pools[s] EXCEPT !.Networks = MapDelete(@, network)]]

Delete(network) ==
    /\ Supernets' = WithoutNetwork(Supernets, network)
    /\ Added' = MapDelete(Added, network)
    /\ last' = Outcome("delete", network, <<>>, <<>>, FALSE, ZeroNetwork,
                       EmptyBag, ErrNil)
    /\ UNCHANGED <<UseFirst, issued, exhausted>>

----------------------------------------------------------------------------
(* FakeClient.Add *)

\* only the second of the two checks
ExistsInAdded(network) == network \in DOMAIN Added

\* the two "already exists" checks: every pool, then the added networks
Exists(network) ==
    \/ \E s \in DOMAIN Supernets : network \in DOMAIN Supernets[s].Networks
    \/ network \in DOMAIN Added

\* AddedWith without the Tags field
AddedWithoutTags(network, description, tags) ==
    MapPut(Added, network,
           [ZeroNetwork EXCEPT !.Network = network,
                               !.Description = description])

AddedWith(network, description, tags) ==
    MapPut(Added, network,
           [ZeroNetwork EXCEPT !.Network = network,
                               !.Description = description, !.Tags = tags])

Add(network, description, tags) ==
    IF Exists(network)
    THEN /\ last' = Outcome("add", network, description, tags, FALSE,
                            ZeroNetwork, EmptyBag, ErrAlreadyExists)
         /\ UNCHANGED <<UseFirst, Supernets, Added, issued, exhausted>>
    ELSE /\ Added' = AddedWith(network, description, tags)
         /\ last' = Outcome("add", network, description, tags, FALSE,
                            ZeroNetwork, EmptyBag, ErrNil)
         /\ UNCHANGED <<UseFirst, Supernets, issued, exhausted>>

----------------------------------------------------------------------------
(* FakeClient.Search *)

\* strings.Contains(s, substr)
Contains(s, substr) ==
    \E i \in 1..(Len(s) - Len(substr) + 1) :
        SubSeq(s, i, i + Len(substr) - 1) = substr

Matches(n, description, exact) ==
    \/ exact /\ n.Description = description
    \/ ~exact /\ Contains(n.Description, description)

\* the records of one map that match
MapMatches(m, description, exact) ==
    ValuesBag(m, {k \in DOMAIN m : Matches(m[k], description, exact)})

RECURSIVE PoolMatches(_, _, _)
\* the matching records of the pools named in keys, appended pool by pool
PoolMatches(keys, description, exact) ==
    IF keys = {}
    THEN EmptyBag
    ELSE LET s == CHOOSE k \in keys : TRUE
         IN  MapMatches(Supernets[s].Networks, description, exact)
             (+) PoolMatches(keys \ {s}, description, exact)

\* Search without its second loop
SearchAddedOnly(description, exact) ==
    MapMatches(Added, description, exact)

SearchResult(description, exact) ==
    MapMatches(Added, description, exact)
    (+) PoolMatches(DOMAIN Supernets, description, exact)

Search(description, exact) ==
    /\ last' = Outcome("search", EmptyString, description, <<>>, exact,
                       ZeroNetwork, SearchResult(description, exact), ErrNil)
    /\ UNCHANGED <<UseFirst, Supernets, Added, issued, exhausted>>

----------------------------------------------------------------------------
(* FakeClient.Reset *)

\* a Reset that forgets the added networks
ResetPoolsOnly ==
    /\ Supernets' = EmptyMap
    /\ last' = Outcome("reset", EmptyString, <<>>, <<>>, FALSE, ZeroNetwork,
                       EmptyBag, ErrNil)
    /\ issued' = [s \in DOMAIN issued |-> <<>>]
    /\ exhausted' = {}
    /\ UNCHANGED <<UseFirst, Added>>

Reset ==
    /\ Supernets' = EmptyMap
    /\ Added' = EmptyMap
    /\ last' = Outcome("reset", EmptyString, <<>>, <<>>, FALSE, ZeroNetwork,
                       EmptyBag, ErrNil)
    /\ issued' = [s \in DOMAIN issued |-> <<>>]
    /\ exhausted' = {}
    /\ UNCHANGED UseFirst

----------------------------------------------------------------------------

(* The calls of one caller at a time, with the history they leave: live[s] *)
(* holds the records the successful Assign calls on s returned, less those *)
(* whose network a later Delete named.                                     *)

GetStep(network) ==
    Get(network) /\ UNCHANGED <<live, procs, web>>

ListStep(supernet) ==
    List(supernet) /\ UNCHANGED <<live, procs, web>>

AssignStep(supernet, description, cidr, tags) ==
    /\ Assign(supernet, description, cidr, tags)
    /\ live' = IF last'.err = ErrNil
               THEN [live EXCEPT ![supernet] = @ \cup {last'.net}]
               ELSE live
    /\ UNCHANGED <<procs, web>>

DeleteStep(network) ==
    /\ Delete(network)
    /\ live' = [s \in DOMAIN live |-> {n \in live[s] : n.Network # network}]
    /\ UNCHANGED <<procs, web>>

AddStep(network, description, tags) ==
    Add(network, description, tags) /\ UNCHANGED <<live, procs, web>>

SearchStep(description, exact) ==
    Search(description, exact) /\ UNCHANGED <<live, procs, web>>

ResetStep ==
    /\ Reset
    /\ live' = [s \in DOMAIN live |-> {}]
    /\ UNCHANGED <<procs, web>>

Next ==
    \/ \E network \in Identifiers : GetStep(network)
    \/ \E supernet \in SupernetArgs : ListStep(supernet)
    \/ \E supernet \in SupernetArgs, r \in Requests, cidr \in PrefixLengths :
          AssignStep(supernet, r.description, cidr, r.tags)
    \/ \E network \in Identifiers : DeleteStep(network)
    \/ \E network \in AddArgs, r \in AddRequests :
          AddStep(network, r.description, r.tags)
    \/ \E description \in Queries, exact \in BOOLEAN :
          SearchStep(description, exact)
    \/ ResetStep

Spec == Init /\ [][Next]_vars

----------------------------------------------------------------------------
(* Vocabulary of the properties *)

\* a is a lower address than b
IpLess(a, b) ==
    \E i \in 1..Len(a) :
        /\ a[i] < b[i]
        /\ \A j \in 1..(i - 1) : a[j] = b[j]

\* the network a well-formed supernet string denotes
NetOf(supernet) == ParseCIDR(supernet).net

\* ip lies between the first and the last address of net
InRange(ip, net) ==
    LET r == AddressRange(net)
    IN  /\ ip = r.first \/ IpLess(r.first, ip)
        /\ ip = r.last \/ IpLess(ip, r.last)

\* the broadcast/last address of a supernet, as Assign would name it
LastName(supernet) == NetName(AddressRange(NetOf(supernet)).last)

Range(m) == {m[k] : k \in DOMAIN m}

InSomePool(network) ==
    \E s \in DOMAIN Supernets : network \in DOMAIN Supernets[s].Networks

\* network is a key of a pool's networks or of the added set
Held(network) == InSomePool(network) \/ network \in DOMAIN Added

\* every record the engine holds
AllRecords ==
    Range(Added) \cup UNION {Range(Supernets[s].Networks) : s \in DOMAIN Supernets}

\* the number of containers (the added set, each pool) that hold record n
Holders(n) ==
    (IF n \in Range(Added) THEN 1 ELSE 0)
    + Cardinality({s \in DOMAIN Supernets : n \in Range(Supernets[s].Networks)})

\* text occurs in description: description = u \o text \o v for some u, v
IsSubstring(text, description) ==
    \E i \in 0..Len(description), j \in 0..Len(description) :
        /\ i <= j
        /\ [k \in 1..(j - i) |-> description[i + k]] = text

----------------------------------------------------------------------------
(* C1 *)

\* C1: in standard mode a successful assign never returns the broadcast/last
\* address of its supernet (so the third assign on 10.0.0.0/30 fails)
C1_NeverHandsOutLast ==
    (~UseFirst /\ last.op = "assign" /\ last.err = ErrNil)
        => last.net.Network # LastName(last.network)

----------------------------------------------------------------------------
(* C2 *)

\* C2: between two resets the addresses the successful assigns on one
\* supernet string returned are strictly increasing (so none repeats, deleted
\* or not) and all lie in the supernet's address range
C2_IssuedIncreasingInRange ==
    \A s \in SupernetArgs :
        /\ \A i \in 1..Len(issued[s]) : InRange(issued[s][i], NetOf(s))
        /\ \A i \in 1..Len(issued[s]), j \in 1..Len(issued[s]) :
              i < j => IpLess(issued[s][i], issued[s][j])

\* an assign succeeded on a pool whose first address had been deleted before
C2_Witness ==
    /\ last.op = "assign" /\ last.err = ErrNil
    /\ Len(issued[last.network]) >= 2
    /\ NetName(issued[last.network][1])
          \notin DOMAIN Supernets[last.network].Networks

----------------------------------------------------------------------------
(* C3 *)

\* C3: once an assign on a supernet has failed with "out of addresses", every
\* later assign on it fails the same way, until a reset
C3_ExhaustionPermanent ==
    [][\A s \in exhausted :
          (last'.op = "assign" /\ last'.network = s)
              => last'.err = ErrOutOfAddresses]_vars

\* a failed assign on a pool from which the last address had been deleted
C3_Witness ==
    /\ last.op = "assign" /\ last.err = ErrOutOfAddresses
    /\ last.network \in exhausted
    /\ issued[last.network] # <<>>
    /\ LastName(last.network) \notin DOMAIN Supernets[last.network].Networks

----------------------------------------------------------------------------
(* C4 *)

\* C4: no CIDR string is a key of the added set and of a pool's networks
C4_AddedDisjointFromPools ==
    \A network \in DOMAIN Added : ~InSomePool(network)

----------------------------------------------------------------------------
(* C5 *)

\* C5: right after a successful add, get of the same network returns, without
\* error, a record with that network, description and tags
C5_GetAfterAdd ==
    (last.op = "add" /\ last.err = ErrNil)
        => \A r \in GetResults(last.network) :
              /\ r.err = ErrNil
              /\ r.net.Network = last.network
              /\ r.net.Description = last.description
              /\ r.net.Tags = last.tags

\* an add of a well-formed network has just succeeded
C5_Witness ==
    /\ last.op = "add" /\ last.err = ErrNil
    /\ ~ParseCIDR(last.network).err
    /\ last.tags # <<>>

----------------------------------------------------------------------------
(* C6 *)

\* C6: an add of a network that is a key of the added set or of a pool fails
\* with "already exists" and changes neither the pools nor the added set
C6_AddExistingRefused ==
    [][(last'.op = "add" /\ Held(last'.network))
          => /\ last'.err = ErrAlreadyExists
             /\ Supernets' = Supernets
             /\ Added' = Added]_vars

\* an add was refused for a network that only a pool holds, with another
\* description than the one passed
C6_Witness ==
    /\ last.op = "add" /\ last.err = ErrAlreadyExists
    /\ last.network \notin DOMAIN Added
    /\ \E s \in DOMAIN Supernets :
          /\ last.network \in DOMAIN Supernets[s].Networks
          /\ Supernets[s].Networks[last.network].Description # last.description

----------------------------------------------------------------------------
(* C7 *)

\* C7: assign and add with a malformed CIDR both fail with a parse error
C7_MalformedIsParseError ==
    (last.op \in {"assign", "add"} /\ ParseCIDR(last.network).err)
        => last.err = ErrParse

----------------------------------------------------------------------------
(* C8 *)

\* C8: get of a network that neither the added set nor a pool holds fails
\* with "not found" and an empty record; no get returns an empty record
\* without an error
C8_GetUnknownNotFound ==
    last.op = "get"
        => /\ ~Held(last.network)
                => (last.err = ErrNotFound /\ last.net = ZeroNetwork)
           /\ ~(last.net = ZeroNetwork /\ last.err = ErrNil)

\* get of a network that had been handed out and deleted
C8_Witness ==
    /\ last.op = "get" /\ last.err = ErrNotFound
    /\ \E s \in SupernetArgs : \E i \in 1..Len(issued[s]) :
          NetName(issued[s][i]) = last.network

----------------------------------------------------------------------------
(* C9 *)

\* C9: delete returns no error; after it the network is in no pool and not in
\* the added set, get of it does not find it, and deleting it once more
\* changes nothing
C9_DeleteRemovesIdempotent ==
    last.op = "delete"
        => /\ last.err = ErrNil
           /\ ~InSomePool(last.network)
           /\ last.network \notin DOMAIN Added
           /\ \A r \in GetResults(last.network) : r.err = ErrNotFound
           /\ WithoutNetwork(Supernets, last.network) = Supernets
           /\ MapDelete(Added, last.network) = Added

\* a delete of a network that two pools had handed out
C9_Witness ==
    /\ last.op = "delete"
    /\ Cardinality({s \in SupernetArgs : \E i \in 1..Len(issued[s]) :
                       NetName(issued[s][i]) = last.network}) >= 2

----------------------------------------------------------------------------
(* C10 *)

\* C10: search returns no error and every record the engine holds whose
\* description equals the text (exact) or contains it (not exact), once for
\* each place holding it, and nothing else
C10_SearchExactlyMatches ==
    last.op = "search"
        => /\ last.err = ErrNil
           /\ \A n \in AllRecords \cup BagToSet(last.nets) :
                 CopiesIn(n, last.nets) =
                    IF \/ last.exact /\ n.Description = last.description
                       \/ ~last.exact
                          /\ IsSubstring(last.description, n.Description)
                    THEN Holders(n)
                    ELSE 0

\* a search by substring that found an added network and a pool's network
\* and left out a record the engine holds
C10_Witness ==
    /\ last.op = "search" /\ ~last.exact
    /\ \E n \in BagToSet(last.nets) : n \in Range(Added)
    /\ \E n \in BagToSet(last.nets) : n \notin Range(Added)
    /\ \E n \in AllRecords : ~BagIn(n, last.nets)

----------------------------------------------------------------------------
(* The same client asked for IPv6 networks *)

\* the address fd00::n
V6(n) == [i \in 1..16 |-> IF i = 1 THEN 253 ELSE IF i = 16 THEN n ELSE 0]

\* "fd00::/126"
SupernetArgsV6 == {Text(V6(0), <<126>>)}

\* "fd00::1/128"
AddArgsV6 == {Text(V6(1), <<128>>)}

\* "fd00::1/128" and "fd00::1/32"
IdentifiersV6 == AddArgsV6 \cup {Text(V6(1), <<32>>)}

InitV6 ==
    /\ NewClient(SupernetArgsV6)
    /\ procs = NoProcs
    /\ web = NoWeb

NextV6 ==
    \/ \E network \in IdentifiersV6 : GetStep(network)
    \/ \E supernet \in SupernetArgsV6 : ListStep(supernet)
    \/ \E supernet \in SupernetArgsV6, r \in Requests, cidr \in PrefixLengths :
          AssignStep(supernet, r.description, cidr, r.tags)
    \/ \E network \in IdentifiersV6 : DeleteStep(network)
    \/ \E network \in AddArgsV6, r \in AddRequests :
          AddStep(network, r.description, r.tags)
    \/ \E description \in Queries, exact \in BOOLEAN :
          SearchStep(description, exact)
    \/ ResetStep

SpecV6 == InitV6 /\ [][NextV6]_vars

----------------------------------------------------------------------------
(* Two callers inside FakeClient.Assign at the same time.  FakeClient has no
   lock: every statement of Assign is a step of its own, and reads the
   client's fields as they are when it runs *)

Callers == {1, 2}

\* "10.0.0.0/30"
ConcSupernets == {Text(<<10, 0, 0, 0>>, <<30>>)}

\* a caller that has not called yet: the variables of Assign have no value
Ready ==
    [pc |-> "ready", supernet |-> EmptyString, description |-> <<>>,
     tags |-> <<>>, start |-> <<>>, ip |-> <<>>,
     net |-> [IP |-> <<>>, Mask |-> 0], newip |-> <<>>,
     netname |-> EmptyString, network1 |-> ZeroNetwork, err |-> ErrNil]

InitConc ==
    /\ NewClient(ConcSupernets)
    /\ procs = [p \in Callers |-> Ready]
    /\ web = NoWeb

\* a call made while nobody else is inside the client
Alone(supernet, description, cidr, tags) ==
    /\ \A p \in Callers : procs[p].pc = "ready"
    /\ AssignStep(supernet, description, cidr, tags)

\* both callers call Assign(supernet, ...); start is the cursor at that time
Go(supernet, r) ==
    /\ \A p \in Callers : procs[p].pc = "ready"
    /\ procs' =
          [p \in Callers |->
              [Ready EXCEPT
                  !.pc = "parse", !.supernet = supernet,
                  !.description = r[p].description, !.tags = r[p].tags,
                  !.start = IF supernet \in DOMAIN Supernets
                            THEN Supernets[supernet].Last
                            ELSE InitialLast(ParseCIDR(supernet).ip)]]
    /\ UNCHANGED <<UseFirst, Supernets, Added, last, issued, exhausted, live,
                   web>>

\* ip, net, err := net.ParseCIDR(supernet)
Parse(p) ==
    /\ procs[p].pc = "parse"
    /\ LET r == ParseCIDR(procs[p].supernet)
       IN  procs' = [procs EXCEPT ![p] =
                        IF r.err
                        THEN [@ EXCEPT !.pc = "done", !.err = ErrParse]
                        ELSE [@ EXCEPT !.pc = "lookup", !.ip = r.ip,
                                       !.net = r.net]]
    /\ UNCHANGED <<UseFirst, Supernets, Added, last, issued, exhausted, live,
                   web>>

\* if _, ok := c.Supernets[supernet]; !ok
Lookup(p) ==
    /\ procs[p].pc = "lookup"
    /\ procs' = [procs EXCEPT ![p].pc =
                    IF procs[p].supernet \in DOMAIN Supernets
                    THEN "check" ELSE "create"]
    /\ UNCHANGED <<UseFirst, Supernets, Added, last, issued, exhausted, live,
                   web>>

\* c.Supernets[supernet] = &FakeSupernet{...}
Create(p) ==
    /\ procs[p].pc = "create"
    /\ Supernets' = MapPut(Supernets, procs[p].supernet,
                           [Network |-> procs[p].net, Networks |-> EmptyMap,
                            Last |-> InitialLast(procs[p].ip)])
    /\ procs' = [procs EXCEPT ![p].pc = "check"]
    /\ UNCHANGED <<UseFirst, Added, last, issued, exhausted, live, web>>

\* if l.Equal(c.Supernets[supernet].Last) { return Network{}, ... }
Check(p) ==
    /\ procs[p].pc = "check"
    /\ procs' = [procs EXCEPT ![p] =
                    IF OutOfAddresses(procs[p].net,
                                      Supernets[procs[p].supernet].Last)
                    THEN [@ EXCEPT !.pc = "done", !.err = ErrOutOfAddresses]
                    ELSE [@ EXCEPT !.pc = "inc"]]
    /\ UNCHANGED <<UseFirst, Supernets, Added, last, issued, exhausted, live,
                   web>>

\* newip := ccidr.Inc(c.Supernets[supernet].Last), netname and network1
Increment(p) ==
    /\ procs[p].pc = "inc"
    /\ LET newip == Inc(Supernets[procs[p].supernet].Last)
           netname == NetName(newip)
       IN  procs' = [procs EXCEPT ![p] =
                        [@ EXCEPT
                            !.pc = "store", !.newip = newip,
                            !.netname = netname,
                            !.network1 =
                                [ZeroNetwork EXCEPT
                                    !.Network = netname,
                                    !.Description = procs[p].description,
                                    !.Tags = procs[p].tags]]]
    /\ UNCHANGED <<UseFirst, Supernets, Added, last, issued, exhausted, live,
                   web>>

\* c.Supernets[supernet].Networks[netname] = network1
Store(p) ==
    /\ procs[p].pc = "store"
    /\ Supernets' = [Supernets EXCEPT ![procs[p].supernet].Networks =
                        MapPut(@, procs[p].netname, procs[p].network1)]
    /\ procs' = [procs EXCEPT ![p].pc = "advance"]
    /\ UNCHANGED <<UseFirst, Added, last, issued, exhausted, live, web>>

\* c.Supernets[supernet].Last = newip, and the return
Advance(p) ==
    /\ procs[p].pc = "advance"
    /\ Supernets' = [Supernets EXCEPT ![procs[p].supernet].Last =
                        procs[p].newip]
    /\ procs' = [procs EXCEPT ![p].pc = "done"]
    /\ UNCHANGED <<UseFirst, Added, last, issued, exhausted, live, web>>

\* the Go runtime ends the program when a map is written while another
\* goroutine reads or writes it: c.Supernets is written by the creation of
\* the pool and read by every later statement, Networks is written by the
\* store
Crash ==
    /\ \E p \in Callers, q \in Callers :
          /\ p # q
          /\ \/ /\ procs[p].pc = "create"
                /\ procs[q].pc \in {"lookup", "create", "check", "inc",
                                    "store", "advance"}
             \/ /\ procs[p].pc = "store"
                /\ procs[q].pc = "store"
    /\ procs' = [p \in Callers |-> [procs[p] EXCEPT !.pc = "crashed"]]
    /\ UNCHANGED <<UseFirst, Supernets, Added, last, issued, exhausted, live,
                   web>>

NextConc ==
    \/ \E supernet \in ConcSupernets, r \in Requests, cidr \in PrefixLengths :
          Alone(supernet, r.description, cidr, r.tags)
    \/ \E supernet \in ConcSupernets, r \in [Callers -> Requests] :
          Go(supernet, r)
    \/ \E p \in Callers : Parse(p)
    \/ \E p \in Callers : Lookup(p)
    \/ \E p \in Callers : Create(p)
    \/ \E p \in Callers : Check(p)
    \/ \E p \in Callers : Increment(p)
    \/ \E p \in Callers : Store(p)
    \/ \E p \in Callers : Advance(p)
    \/ Crash

SpecConc == InitConc /\ [][NextConc]_vars

----------------------------------------------------------------------------
(* The WebClient: every method sends one request with napping.Get and looks
   at what came back *)

\* errors of the WebClient: none, the one napping.Get returned, and
\* fmt.Errorf("<what>: %s", resp.RawText())
NoError == <<>>
TransportError == <<"transport">>
Failure(what, raw) == <<what, raw>>

\* Delete, Add and Reset return an error only
NoResult == "none"

\* a network the server knows
Served ==
    [ZeroNetwork EXCEPT !.Network = Text(<<10, 0, 0, 1>>, <<32>>),
                        !.Description = <<"a">>]

\* what napping.Get comes back with: an error of its own, or a response with
\* a status and a body; decoded is what it left in the result variable
Responses(decoded) ==
    [transport : {"failed"}, status : {0}, raw : {""}, decoded : decoded]
    \cup [transport : {"ok"}, status : {200, 201, 500},
          raw : {"", "denied"}, decoded : decoded]

\* strings.Join(tags, " ")
RECURSIVE Join(_)
Join(tags) ==
    IF Len(tags) = 0 THEN <<>>
    ELSE IF Len(tags) = 1 THEN <<tags[1]>>
    ELSE <<tags[1], " ">> \o Join(Tail(tags))

\* fmt.Sprintf("%d", cidr) for a cidr that is not negative
RECURSIVE Decimal(_)
Decimal(n) ==
    IF n < 10 THEN <<n>> ELSE Append(Decimal(n \div 10), n % 10)

\* a Reply that returns with the named result as napping left it
ReplyKeepsDecoded(what, zero, resp) ==
    IF resp.transport = "failed"
    THEN [result |-> resp.decoded, err |-> TransportError]
    ELSE IF resp.status # 200
         THEN [result |-> resp.decoded, err |-> Failure(what, resp.raw)]
         ELSE [result |-> resp.decoded, err |-> NoError]

\* the two checks that follow napping.Get, and the return
Reply(what, zero, resp) ==
    IF resp.transport = "failed"
    THEN [result |-> zero, err |-> TransportError]
    ELSE IF resp.status # 200
         THEN [result |-> zero, err |-> Failure(what, resp.raw)]
         ELSE [result |-> resp.decoded, err |-> NoError]

\* the call as it ends: the request that was sent and what is returned
Round(op, path, values, what, zero, resp) ==
    [op |-> op,
     requests |-> <<[path |-> path, values |-> values]>>,
     response |-> resp,
     result |-> Reply(what, zero, resp).result,
     err |-> Reply(what, zero, resp).err]

WebGet(network, resp) ==
    /\ web' = Round("get", "/RESTWrapper/getNetworkDetails",
                    [network |-> network],
                    "lookup failed", ZeroNetwork, resp)
    /\ UNCHANGED <<UseFirst, Supernets, Added, last, issued, exhausted, live,
                   procs>>

WebList(supernet, resp) ==
    /\ web' = Round("list", "/RESTWrapper/getSubnets",
                    [supernet |-> supernet],
                    "list failed", <<>>, resp)
    /\ UNCHANGED <<UseFirst, Supernets, Added, last, issued, exhausted, live,
                   procs>>

WebAssign(supernet, description, cidr, tags, resp) ==
    /\ web' = Round("assign", "/RESTWrapper/assignFreeSubnet",
                    [supernet |-> supernet, description |-> description,
                     cidr |-> Decimal(cidr), tags |-> Join(tags)],
                    "assignment failed", ZeroNetwork, resp)
    /\ UNCHANGED <<UseFirst, Supernets, Added, last, issued, exhausted, live,
                   procs>>

WebDelete(network, resp) ==
    /\ web' = Round("delete", "/RESTWrapper/delNet",
                    [network |-> network, networkLock |-> "1"],
                    "delete failed", NoResult, resp)
    /\ UNCHANGED <<UseFirst, Supernets, Added, last, issued, exhausted, live,
                   procs>>

WebAdd(network, description, tags, resp) ==
    /\ web' = Round("add", "/RESTWrapper/addNet",
                    [network |-> network, description |-> description,
                     tags |-> Join(tags)],
                    "assignment failed", NoResult, resp)
    /\ UNCHANGED <<UseFirst, Supernets, Added, last, issued, exhausted, live,
                   procs>>

WebSearch(description, exact, resp) ==
    /\ web' = Round("search", "/RESTWrapper/search",
                    IF exact
                    THEN [search |-> description, withDetails |-> "1",
                          exact |-> "true"]
                    ELSE [search |-> description, withDetails |-> "1"],
                    "search failed", <<>>, resp)
    /\ UNCHANGED <<UseFirst, Supernets, Added, last, issued, exhausted, live,
                   procs>>

\* WebClient.Reset sends nothing
WebReset ==
    /\ web' = [op |-> "reset", requests |-> <<>>,
               response |-> [transport |-> "none", status |-> 0, raw |-> "",
                             decoded |-> NoResult],
               result |-> NoResult,
               err |-> <<"Reset() not implemented in haci.WebClient">>]
    /\ UNCHANGED <<UseFirst, Supernets, Added, last, issued, exhausted, live,
                   procs>>

NextWeb ==
    \/ \E network \in Identifiers, resp \in Responses({ZeroNetwork, Served}) :
          WebGet(network, resp)
    \/ \E supernet \in SupernetArgs, resp \in Responses({<<>>, <<Served>>}) :
          WebList(supernet, resp)
    \/ \E supernet \in SupernetArgs, r \in Requests, cidr \in PrefixLengths,
          resp \in Responses({ZeroNetwork, Served}) :
          WebAssign(supernet, r.description, cidr, r.tags, resp)
    \/ \E network \in Identifiers, resp \in Responses({NoResult}) :
          WebDelete(network, resp)
    \/ \E network \in AddArgs, r \in AddRequests,
          resp \in Responses({NoResult}) :
          WebAdd(network, r.description, r.tags, resp)
    \/ \E description \in Queries, exact \in BOOLEAN,
          resp \in Responses({<<>>, <<Served>>}) :
          WebSearch(description, exact, resp)
    \/ WebReset

SpecWeb == Init /\ [][NextWeb]_vars

----------------------------------------------------------------------------
(* Vocabulary of the properties, continued *)

\* the answer of Get when it does not find the network
NotFound == {[net |-> ZeroNetwork, err |-> ErrNotFound]}

\* every network a pool or the added set holds, or that was handed out
KnownNetworks ==
    DOMAIN Added
    \cup UNION {DOMAIN Supernets[s].Networks : s \in DOMAIN Supernets}
    \cup UNION {{NetName(issued[s][i]) : i \in 1..Len(issued[s])} :
                   s \in DOMAIN issued}

\* where the cursor of a new pool for supernet stands
FreshCursor(supernet) ==
    IF UseFirst THEN Dec(ParseCIDR(supernet).ip) ELSE ParseCIDR(supernet).ip

\* the cursor Assign starts from: the pool's, or that of a new pool
CursorBefore(supernet) ==
    IF supernet \in DOMAIN Supernets
    THEN Supernets[supernet].Last
    ELSE FreshCursor(supernet)

----------------------------------------------------------------------------
(* C11 *)

\* C11: after reset, list of every supernet is empty, get of every network
\* that was added or assigned before fails with "not found", every search is
\* empty, and the next successful assign on a supernet returns the address a
\* new client returns first
C11_ResetRestoresInitial ==
    [][/\ last'.op = "reset"
            => /\ last'.err = ErrNil
               /\ \A s \in SupernetArgs : ListResult(s)' = EmptyBag
               /\ \A network \in KnownNetworks \cup Identifiers :
                     GetResults(network)' = NotFound
               /\ \A q \in Queries \cup {<<>>}, e \in BOOLEAN :
                     SearchResult(q, e)' = EmptyBag
       /\ (last.op = "reset" /\ last'.op = "assign" /\ last'.err = ErrNil)
            => last'.net.Network = NetName(Inc(FreshCursor(last'.network)))
      ]_vars

\* a reset has just returned
C11_Witness ==
    /\ last.op = "reset"
    /\ Supernets = EmptyMap /\ Added = EmptyMap

----------------------------------------------------------------------------
(* C12 *)

\* C12: list returns, without error, each record assigned from that
\* supernet's pool and not deleted since, once, and nothing else: nothing
\* when the supernet was never used, and never an added network
C12_ListExactlyLive ==
    last.op = "list"
        => /\ last.err = ErrNil
           /\ BagToSet(last.nets) = live[last.network]
           /\ \A n \in BagToSet(last.nets) : CopiesIn(n, last.nets) = 1

\* a list that left out a deleted record of the pool and an added network
C12_Witness ==
    /\ last.op = "list"
    /\ last.nets # EmptyBag
    /\ Cardinality(BagToSet(last.nets)) < Len(issued[last.network])
    /\ Added # EmptyMap

----------------------------------------------------------------------------
(* C13 *)

\* C13: the first successful assign on a supernet returns the network
\* address of the supernet in first-address mode and the address after it in
\* standard mode, host bits in the supernet string or not
C13_FirstAssignFromNetworkAddress ==
    (last.op = "assign" /\ last.err = ErrNil /\ Len(issued[last.network]) = 1)
        => last.net.Network =
              NetName(IF UseFirst THEN NetOf(last.network).IP
                      ELSE Inc(NetOf(last.network).IP))

----------------------------------------------------------------------------
(* C14 *)

\* C14: when two callers have both returned from an assign on the same
\* supernet that they made at the same time, without error, they were given
\* different networks, the pool holds both records, and the cursor is two
\* above where it stood when they called
C14_ConcurrentAssignsSerialized ==
    (/\ DOMAIN procs = Callers
     /\ \A p \in Callers : procs[p].pc = "done" /\ procs[p].err = ErrNil)
        => /\ procs[1].network1.Network # procs[2].network1.Network
           /\ \A p \in Callers :
                 /\ procs[p].netname
                       \in DOMAIN Supernets[procs[p].supernet].Networks
                 /\ Supernets[procs[p].supernet].Networks[procs[p].netname]
                       = procs[p].network1
           /\ Supernets[procs[1].supernet].Last = Inc(Inc(procs[1].start))

----------------------------------------------------------------------------
(* C15 *)

\* what a method of the WebClient returns when it has nothing to return
WebZero(op) ==
    IF op \in {"get", "assign"} THEN ZeroNetwork
    ELSE IF op \in {"list", "search"} THEN <<>>
    ELSE NoResult

\* C15: get, list, assign, delete, add and search of the WebClient send one
\* request; when the transport failed or the status of the response is not
\* 200 they return an error and a record or list with nothing in it
C15_OneRequestErrorAndZero ==
    web.op \in {"get", "list", "assign", "delete", "add", "search"}
        => /\ Len(web.requests) = 1
           /\ (web.response.transport = "failed" \/ web.response.status # 200)
                 => /\ web.err # NoError
                    /\ web.result = WebZero(web.op)

\* a list that was answered with status 500 and a decoded network
C15_Witness ==
    /\ web.op = "list"
    /\ web.response.transport = "ok"
    /\ web.response.status = 500
    /\ web.response.decoded # <<>>
    /\ web.result = <<>>

----------------------------------------------------------------------------
(* C16 *)

\* C16: the cursor of every pool lies in the supernet's address range or is
\* the address before its first one, and an assign on a pool whose cursor is
\* the last address of the range fails with "out of addresses": an assign
\* that succeeded has moved the cursor by one from an address that is not
\* the last one
C16_CursorInRangeRefusesAtLast ==
    /\ \A s \in DOMAIN Supernets :
          \/ InRange(Supernets[s].Last, NetOf(s))
          \/ Inc(Supernets[s].Last) = AddressRange(NetOf(s)).first
    /\ (last.op = "assign" /\ last.err = ErrNil)
          => /\ Inc(Dec(Supernets[last.network].Last))
                   = Supernets[last.network].Last
             /\ Dec(Supernets[last.network].Last)
                   # AddressRange(NetOf(last.network)).last
    /\ (last.op = "assign" /\ last.network \in DOMAIN Supernets)
          => last.err \in {ErrNil, ErrOutOfAddresses}

\* an assign was refused on a pool whose cursor is the last address
C16_Witness ==
    /\ last.op = "assign" /\ last.err = ErrOutOfAddresses
    /\ Supernets[last.network].Last = AddressRange(NetOf(last.network)).last
    /\ Supernets[last.network].Networks # EmptyMap

----------------------------------------------------------------------------
(* C17 *)

\* C17: an assign that fails with "out of addresses" returns an empty record
\* and changes neither the pools nor the added set, new supernet or not
C17_FailedAssignChangesNothing ==
    [][(last'.op = "assign" /\ last'.err = ErrOutOfAddresses)
          => /\ last'.net = ZeroNetwork
             /\ Supernets' = Supernets
             /\ Added' = Added]_vars

\* C17 as amended: such an assign returns an empty record and leaves the
\* added set and every pool there was as they were; when the supernet had no
\* pool it gets one, with no networks and the cursor where a new pool starts
C17_FailedAssignKeepsPools ==
    [][(last'.op = "assign" /\ last'.err = ErrOutOfAddresses)
          => /\ last'.net = ZeroNetwork
             /\ Added' = Added
             /\ DOMAIN Supernets' = DOMAIN Supernets \cup {last'.network}
             /\ \A s \in DOMAIN Supernets : Supernets'[s] = Supernets[s]
             /\ last'.network \notin DOMAIN Supernets
                   => /\ Supernets'[last'.network].Networks = EmptyMap
                      /\ Supernets'[last'.network].Last =
                            FreshCursor(last'.network)]_vars

\* a failed assign on a supernet that has a pool and never got an address
C17_Witness ==
    /\ last.op = "assign" /\ last.err = ErrOutOfAddresses
    /\ last.network \in DOMAIN Supernets
    /\ issued[last.network] = <<>>

----------------------------------------------------------------------------
(* C18 *)

\* C18: a successful assign returns the address after the cursor written as
\* a prefix of one host (as many bits as the address has), whatever prefix
\* length was asked for, with the description and tags it was given; the
\* pool holds the record under that name and its cursor is that address
C18_AssignStoresHostRoute ==
    [][(last'.op = "assign" /\ last'.err = ErrNil)
          => LET supernet == last'.network
                 candidate == Inc(CursorBefore(supernet))
                 name == Text(candidate, <<8 * Len(candidate)>>)
             IN  /\ last'.net = [ZeroNetwork EXCEPT
                                    !.Network = name,
                                    !.Description = last'.description,
                                    !.Tags = last'.tags]
                 /\ name \in DOMAIN Supernets'[supernet].Networks
                 /\ Supernets'[supernet].Networks[name] = last'.net
                 /\ Supernets'[supernet].Last = candidate]_vars

----------------------------------------------------------------------------
(* C19 *)

\* C19: right after a successful assign, get of the returned network
\* succeeds with the description and tags of the returned record, and list
\* of the supernet holds the record
C19_AssignedIsRetrievable ==
    (last.op = "assign" /\ last.err = ErrNil)
        => /\ \A r \in GetResults(last.net.Network) :
                 /\ r.err = ErrNil
                 /\ r.net.Description = last.net.Description
                 /\ r.net.Tags = last.net.Tags
           /\ BagIn(last.net, ListResult(last.network))

----------------------------------------------------------------------------
(* C20 *)

\* C20: no CIDR string is a key of the networks of two pools, so that get
\* has one possible result
C20_KeyInOnePool ==
    /\ \A s1 \in DOMAIN Supernets, s2 \in DOMAIN Supernets :
          s1 # s2 =>
             DOMAIN Supernets[s1].Networks \cap DOMAIN Supernets[s2].Networks
                = {}
    /\ \A network \in KnownNetworks : Cardinality(GetResults(network)) = 1

----------------------------------------------------------------------------
(* C21 *)

\* C21: an assign leaves the added set and the cursor and networks of every
\* pool but that of its supernet as they were, and removes no pool; add and
\* delete leave the pools there are and the cursor of each as they were; get,
\* list and search change neither the pools nor the added set, and list of a
\* supernet without a pool creates none
C21_PoolsIndependent ==
    [][/\ last'.op = "assign"
             => /\ Added' = Added
                /\ DOMAIN Supernets \subseteq DOMAIN Supernets'
                /\ DOMAIN Supernets'
                      \subseteq DOMAIN Supernets \cup {last'.network}
                /\ \A s \in DOMAIN Supernets \ {last'.network} :
                      Supernets'[s] = Supernets[s]
       /\ last'.op \in {"add", "delete"}
             => /\ DOMAIN Supernets' = DOMAIN Supernets
                /\ \A s \in DOMAIN Supernets :
                      /\ Supernets'[s].Last = Supernets[s].Last
                      /\ Supernets'[s].Network = Supernets[s].Network
       /\ last'.op \in {"get", "list", "search"}
             => /\ Supernets' = Supernets
                /\ Added' = Added
      ]_vars

\* an assign has created a pool while another pool held a network and a
\* network was added
C21_Witness ==
    /\ last.op = "assign" /\ last.err = ErrNil
    /\ Len(issued[last.network]) = 1
    /\ \E s \in DOMAIN Supernets \ {last.network} :
          Supernets[s].Networks # EmptyMap
    /\ Added # EmptyMap

====
